---- MODULE Spec2Model ----
(***************************************************************************)
(* Sharded changelog storage: the shard router (src/src/db/                *)
(* shard_manager.py) and the checkpointed migration runner                 *)
(* (src/scripts/migrate_to_sharded.py).                                    *)
(*                                                                         *)
(* A shard is named after the calendar month of its creation               *)
(* (changelog_<year>_<month>.db), so a shard is identified here by the     *)
(* month number that the wall clock showed when it was created.            *)
(***************************************************************************)
EXTENDS Integers, Sequences, FiniteSets, TLC

\* ---------------------------------------------------------------- bounds
MaxEvents == 4
NumRecords == 5
RecordSize == 30

\* ------------------------------------------------------ program constants
MAX_RETRIES == 3
RETRY_DELAY == 5

\* ------------------------------------------------------------ input sets
Limits == {60, 100}
BatchSizes == {2}
Months == 1..(MaxEvents + 1)
Keys == 1..NumRecords

\* The legacy store: NumRecords rows, ORDER BY id, page_id UNIQUE.
Source == [n \in 1..NumRecords |-> n]
total_entries == Len(Source)

VARIABLES
  clock,                   \* wall-clock month (datetime.now())
  shard_size_limit_bytes,  \* ShardedChangelogDB.shard_size_limit_bytes
  rows,                    \* shard file -> sequence of page_ids in its entries table
  mtimes,                  \* shard files ordered by st_mtime, most recent last
  index_file,              \* shard_index.json on disk
  checkpoint_file,         \* migration_checkpoint.json on disk
  pc,                      \* position of the process
  current_shard_path,      \* ShardedChangelogDB.current_shard_path
  page_to_shard,           \* ShardIndex.page_to_shard (in memory)
  checkpoint,              \* migrate_database's checkpoint dict (in memory)
  batch_size,              \* migrate_database's batch_size argument
  offset,                  \* migrate_database's offset
  batch_num,               \* migrate_database's batch_num
  i,                       \* process_batch: position in entries (1-based)
  processed_count,         \* process_batch's processed_count
  retries,                 \* process_batch's retries
  shard_path,              \* insert_entry_to_shard's shard_path
  runs,                    \* history: number of migrate_database calls so far
  completed,               \* history: number of migrate_database calls that returned normally
  orderly,                 \* history: every interrupt fell between batches, every restart resumed
  scanfail,                \* history: shards whose scan failed in the last rebuild_index
  faults,                  \* history: kinds of environment failure seen so far
  events,                  \* history: number of environment events so far
  retired,                 \* history: shards get_shard_for_writing rotated away from
  loaded,                  \* history: what the running migration started from
  lastgood,                \* history: checkpoint file after the last completed save
  predel,                  \* history: index keys held when the index file was deleted
  inserted,                \* history: keys the current or last migration run has inserted
  lastbound,               \* history: the write shard the last router instance was bound to
  slept,                   \* history: seconds of the retry delay being slept, 0 when none
  exhausted,               \* history: keys whose retries were exhausted and that no shard has stored since
  ret                      \* history: outcome of the last direct call of a router or index method since the last change of month or removal of a shard

disk == <<clock, shard_size_limit_bytes, rows, mtimes, index_file, checkpoint_file>>
router == <<current_shard_path, page_to_shard>>
runner == <<checkpoint, batch_size, offset, batch_num, i, processed_count, retries, shard_path>>
history == <<runs, completed, orderly, scanfail, faults, events, retired, loaded, lastgood, predel, inserted, lastbound, slept, exhausted, ret>>
vars == <<disk, pc, router, runner, history>>

\* ------------------------------------------------------------- helpers
Range(f) == {f[x] : x \in DOMAIN f}

EmptyMap == [k \in {} |-> 0]

Put(f, k, v) == [x \in DOMAIN f \cup {k} |-> IF x = k THEN v ELSE f[x]]

RECURSIVE Without(_, _)
Without(seq, x) ==
  IF seq = <<>> THEN <<>>
  ELSE IF Head(seq) = x THEN Without(Tail(seq), x)
  ELSE <<Head(seq)>> \o Without(Tail(seq), x)

Min(a, b) == IF a <= b THEN a ELSE b

\* the empty "current_shard" of a fresh checkpoint; also the write shard of a
\* process that has built no router
NoShard == 0

\* load_checkpoint's default dict / migrate_database's fresh dict
DefaultCheckpoint ==
  [last_batch |-> 0, entries_processed |-> 0,
   processed_page_ids |-> <<>>, current_shard |-> NoShard]

AbsentFile == [st |-> "absent", data |-> DefaultCheckpoint]
AbsentIndex == [st |-> "absent", map |-> EmptyMap]
NoLoad == [resumed |-> FALSE, forced |-> FALSE, S |-> {}, entries_processed |-> 0,
           last_batch |-> 0]
NoPredel == [armed |-> FALSE, keys |-> {}]

\* page_id=None of get_shard_for_reading
NoKey == 0

\* no router or index method has been called directly since the environment
\* last changed the month or removed a shard
NoCall == [op |-> "none", key |-> NoKey, out |-> <<>>, raised |-> FALSE,
           saved |-> FALSE, failed |-> FALSE]

Running == {"loop", "rec", "ins", "idx", "mark", "save", "write",
            "pause", "rebuild", "cleanup"}
Stopped == {"idle", "interrupted", "done", "rebuilt"}

\* -------------------------------------------------------- ShardCatalog
\* _get_all_shard_paths: sorted glob of changelog_*.db
get_all_shard_paths == DOMAIN rows

\* Path.stat().st_size of a shard file
st_size(s) == Len(rows[s]) * RecordSize

\* _check_shard_size
check_shard_size_never(s) == FALSE
check_shard_size(s) ==
  IF s \notin DOMAIN rows THEN FALSE
  ELSE st_size(s) >= shard_size_limit_bytes

\* _create_new_shard: the path it builds from datetime.now()
new_shard_name == clock

\* init_db(path): creates the file with the schema when it is absent,
\* CREATE TABLE IF NOT EXISTS leaves an existing file as it is
init_db_rows_recreates(s) ==
  [x \in DOMAIN rows \cup {s} |-> IF x = s THEN <<>> ELSE rows[x]]
init_db_rows(s) ==
  IF s \in DOMAIN rows THEN rows
  ELSE [x \in DOMAIN rows \cup {s} |-> IF x = s THEN <<>> ELSE rows[x]]

init_db_mtimes(s) ==
  IF s \in DOMAIN rows THEN mtimes ELSE Append(mtimes, s)

\* max(shards, key=st_mtime)
least_recent_shard == mtimes[1]
most_recent_shard == mtimes[Len(mtimes)]

\* _get_or_create_current_shard: the shard the router binds to
get_or_create_nocheck ==
  IF get_all_shard_paths = {} THEN new_shard_name ELSE most_recent_shard
get_or_create_current_shard ==
  IF get_all_shard_paths = {} THEN new_shard_name
  ELSE IF check_shard_size(most_recent_shard) THEN new_shard_name
  ELSE most_recent_shard

\* _get_or_create_current_shard, lines 163-172: it calls _create_new_shard
init_creates_shard ==
  IF get_all_shard_paths = {} THEN TRUE ELSE check_shard_size(most_recent_shard)

\* get_shard_for_writing: the shard it returns and rebinds to
get_shard_for_writing ==
  IF check_shard_size(current_shard_path) THEN new_shard_name
  ELSE current_shard_path

\* ShardIndex._load_index
load_index ==
  IF index_file.st = "ok" THEN index_file.map ELSE EmptyMap

\* sorted(...) of a set of shard paths
RECURSIVE sorted(_)
sorted(S) ==
  IF S = {} THEN <<>>
  ELSE LET m == CHOOSE x \in S : \A y \in S : x <= y
       IN <<m>> \o sorted(S \ {m})

\* get_all_shards
get_all_shards == sorted(get_all_shard_paths)

\* get_shard_for_reading(page_id)
get_shard_for_reading_unchecked(k) ==
  IF k # NoKey /\ k \in DOMAIN page_to_shard
  THEN <<page_to_shard[k]>> ELSE get_all_shards
get_shard_for_reading(k) ==
  IF k # NoKey /\ k \in DOMAIN page_to_shard /\ page_to_shard[k] \in DOMAIN rows
  THEN <<page_to_shard[k]>> ELSE get_all_shards

\* ShardIndex.remove_page
remove_page(map, k) == [x \in DOMAIN map \ {k} |-> map[x]]

\* --------------------------------------------------------------- Init
Init ==
  /\ clock = 1
  /\ shard_size_limit_bytes \in Limits
  /\ rows = EmptyMap
  /\ mtimes = <<>>
  /\ index_file = AbsentIndex
  /\ checkpoint_file = AbsentFile
  /\ pc = "idle"
  /\ current_shard_path = NoShard
  /\ page_to_shard = EmptyMap
  /\ checkpoint = DefaultCheckpoint
  /\ batch_size = 0
  /\ offset = 0
  /\ batch_num = 0
  /\ i = 0
  /\ processed_count = 0
  /\ retries = 0
  /\ shard_path = NoShard
  /\ runs = 0
  /\ completed = 0
  /\ orderly = TRUE
  /\ scanfail = {}
  /\ faults = {}
  /\ events = 0
  /\ retired = {}
  /\ loaded = NoLoad
  /\ lastgood = AbsentFile
  /\ predel = NoPredel
  /\ ret = NoCall
  /\ exhausted = {}
  /\ slept = 0
  /\ lastbound = NoShard
  /\ inserted = {}

\* ------------------------------------------------------- shared effects
Touch(s) == Append(Without(mtimes, s), s)

\* the volatile state of a process that is not running a migration
RunnerReset ==
  /\ checkpoint' = DefaultCheckpoint
  /\ batch_size' = 0
  /\ offset' = 0
  /\ batch_num' = 0
  /\ i' = 0
  /\ processed_count' = 0
  /\ retries' = 0
  /\ shard_path' = NoShard

\* ShardedChangelogDB.__init__: load the index, bind the write shard
RouterInit ==
  /\ page_to_shard' = load_index
  /\ current_shard_path' = get_or_create_current_shard
  /\ rows' = init_db_rows(get_or_create_current_shard)
  /\ mtimes' = init_db_mtimes(get_or_create_current_shard)

\* the rebinding done by a get_shard_for_writing call
Rebind ==
  /\ current_shard_path' = get_shard_for_writing
  /\ retired' = IF get_shard_for_writing # current_shard_path
                THEN retired \cup {current_shard_path} ELSE retired
  /\ lastbound' = get_shard_for_writing

\* get_shard_for_writing, lines 251-252: _create_new_shard runs init_db only
\* when the size check of the bound shard succeeds
WriteTargetFiles ==
  /\ rows' = IF check_shard_size(current_shard_path)
             THEN init_db_rows(new_shard_name) ELSE rows
  /\ mtimes' = IF check_shard_size(current_shard_path)
               THEN init_db_mtimes(new_shard_name) ELSE mtimes

\* load_checkpoint
load_checkpoint_last_saved ==
  IF checkpoint_file.st = "ok" THEN checkpoint_file.data ELSE lastgood.data
load_checkpoint ==
  IF checkpoint_file.st = "ok" THEN checkpoint_file.data ELSE DefaultCheckpoint

\* migrate_database, lines 354-369: the checkpoint a run starts from
start_checkpoint_ignores_force(force_restart) ==
  IF checkpoint_file.st # "absent" THEN load_checkpoint ELSE DefaultCheckpoint
start_checkpoint(force_restart) ==
  IF checkpoint_file.st # "absent" /\ ~force_restart
  THEN load_checkpoint ELSE DefaultCheckpoint

\* get_entries_batch(source, offset, batch_size)
get_entries_batch_off_by_one(off, limit) ==
  SubSeq(Source, off + 2, Min(off + limit, total_entries))
get_entries_batch(off, limit) ==
  SubSeq(Source, off + 1, Min(off + limit, total_entries))

entries == get_entries_batch(offset, batch_size)

page_id == entries[i]

\* process_batch, lines 294 and 324: the for loop has gone through the batch
batch_done_early == i > 1
batch_done == i > Len(entries)

\* process_batch, line 319: the delay after the k-th failed attempt
backoff_exponential(k) == RETRY_DELAY * 2 ^ (k - 1)
backoff(k) == RETRY_DELAY * k

\* process_batch, line 301
already_processed_never(k) == FALSE
already_processed(k) == k \in Range(checkpoint.processed_page_ids)

\* SELECT page_id FROM entries, on one shard
shard_keys(s) == Range(rows[s])

\* insert_entry_to_shard, lines 147-154
existing_unchecked(k, s) == FALSE
existing(k, s) == k \in shard_keys(s)

\* ShardIndex.add_page
add_page(map, k, s) ==
  IF k \notin DOMAIN map \/ map[k] # s THEN Put(map, k, s) ELSE map

\* rebuild_index over the shards whose scan does not fail: shards are
\* visited in name order, so the last shard holding a key wins
rebuild_map_first_wins(failed) ==
  LET scanned == get_all_shard_paths \ failed
      held == UNION {shard_keys(s) : s \in scanned}
  IN [k \in held |->
        CHOOSE s \in scanned : /\ k \in shard_keys(s)
                               /\ \A t \in scanned : k \in shard_keys(t) => t >= s]
rebuild_map(failed) ==
  LET scanned == get_all_shard_paths \ failed
      held == UNION {shard_keys(s) : s \in scanned}
  IN [k \in held |->
        CHOOSE s \in scanned : /\ k \in shard_keys(s)
                               /\ \A t \in scanned : k \in shard_keys(t) => t <= s]

\* ------------------------------------------------------------ actions
\* the calendar month changes.  The clock is read only by _create_new_shard,
\* which runs in the router's construction and in get_shard_for_writing, so
\* a change of month is taken at the positions whose next step may read it.
Tick ==
  /\ events < MaxEvents
  /\ events' = events + 1
  /\ pc \in Stopped \cup {"rec"}
  /\ clock' = clock + 1
  /\ UNCHANGED <<shard_size_limit_bytes, rows, mtimes, index_file, checkpoint_file>>
  /\ UNCHANGED <<pc, router, runner>>
  /\ ret' = NoCall
  /\ UNCHANGED <<runs, completed, orderly, scanfail, faults, retired, loaded, lastgood, predel, inserted, lastbound, slept, exhausted>>

\* migrate_database, lines 338-369
StartRun(force_restart, b) ==
  /\ pc \in Stopped
  /\ events < MaxEvents
  /\ events' = events + 1
  /\ RouterInit
  /\ checkpoint' = start_checkpoint(force_restart)
  /\ offset' = start_checkpoint(force_restart).entries_processed
  /\ batch_num' = start_checkpoint(force_restart).last_batch + 1
  /\ batch_size' = b
  /\ i' = 0 /\ processed_count' = 0 /\ retries' = 0 /\ shard_path' = NoShard
  /\ pc' = "loop"
  /\ runs' = runs + 1
  /\ loaded' = [resumed |-> checkpoint_file.st = "ok" /\ ~force_restart,
                forced |-> force_restart /\ checkpoint_file.st # "absent",
                S |-> Range(start_checkpoint(force_restart).processed_page_ids),
                entries_processed |-> start_checkpoint(force_restart).entries_processed,
                last_batch |-> start_checkpoint(force_restart).last_batch]
  /\ lastgood' = checkpoint_file
  /\ predel' = NoPredel
  /\ UNCHANGED <<clock, shard_size_limit_bytes, index_file, checkpoint_file>>
  /\ orderly' = (orderly /\ ~(force_restart /\ checkpoint_file.st # "absent"))
  /\ inserted' = {}
  /\ lastbound' = get_or_create_current_shard
  /\ slept' = 0
  /\ UNCHANGED <<completed, scanfail, faults, retired, exhausted, ret>>

\* migrate_database, line 375: the loop test succeeds, a batch is fetched
BeginBatch_inclusive ==
  /\ pc = "loop"
  /\ offset <= total_entries
  /\ i' = 1 /\ processed_count' = 0 /\ retries' = 0
  /\ pc' = "rec"
  /\ UNCHANGED <<disk, router, history>>
  /\ UNCHANGED <<checkpoint, batch_size, offset, batch_num, shard_path>>
BeginBatch ==
  /\ pc = "loop"
  /\ offset < total_entries
  /\ i' = 1 /\ processed_count' = 0 /\ retries' = 0
  /\ pc' = "rec"
  /\ UNCHANGED <<disk, router, history>>
  /\ UNCHANGED <<checkpoint, batch_size, offset, batch_num, shard_path>>

\* migrate_database, line 375: the source is exhausted
EndLoop_early ==
  /\ pc = "loop"
  /\ offset + batch_size >= total_entries
  /\ pc' = "rebuild"
  /\ UNCHANGED <<disk, router, runner, history>>
EndLoop ==
  /\ pc = "loop"
  /\ offset >= total_entries
  /\ pc' = "rebuild"
  /\ UNCHANGED <<disk, router, runner, history>>

\* process_batch, lines 300-304
SkipProcessed ==
  /\ pc = "rec"
  /\ i <= Len(entries)
  /\ already_processed(page_id)
  /\ processed_count' = processed_count + 1
  /\ i' = i + 1
  /\ UNCHANGED <<disk, pc, router, history>>
  /\ UNCHANGED <<checkpoint, batch_size, offset, batch_num, retries, shard_path>>

\* process_batch line 312, insert_entry_to_shard line 136
BeginAttempt ==
  /\ pc = "rec"
  /\ i <= Len(entries)
  /\ ~already_processed(page_id)
  /\ Rebind
  /\ WriteTargetFiles
  /\ shard_path' = get_shard_for_writing
  /\ pc' = "ins"
  /\ UNCHANGED <<clock, shard_size_limit_bytes, index_file, checkpoint_file>>
  /\ UNCHANGED <<page_to_shard, checkpoint, batch_size, offset, batch_num, i,
                 processed_count, retries>>
  /\ slept' = 0
  /\ UNCHANGED <<runs, completed, orderly, scanfail, faults, events, loaded, lastgood, predel, inserted, exhausted, ret>>

\* insert_entry_to_shard, lines 150-154: the key is in the target shard
SkipExisting ==
  /\ pc = "ins"
  /\ existing(page_id, shard_path)
  /\ pc' = "mark"
  /\ UNCHANGED <<disk, router, runner, history>>

\* insert_entry_to_shard, lines 156-225: the rows are inserted and committed
InsertCommit_oldest_shard ==
  /\ pc = "ins"
  /\ ~existing(page_id, shard_path)
  /\ rows' = [rows EXCEPT ![least_recent_shard] = Append(@, page_id)]
  /\ mtimes' = Touch(least_recent_shard)
  /\ inserted' = inserted \cup {page_id}
  /\ pc' = "idx"
  /\ UNCHANGED <<clock, shard_size_limit_bytes, index_file, checkpoint_file>>
  /\ UNCHANGED <<router, runner>>
  /\ exhausted' = exhausted \ {page_id}
  /\ UNCHANGED <<runs, completed, orderly, scanfail, faults, events, retired, loaded,
                 lastgood, predel, lastbound, slept, ret>>
InsertCommit ==
  /\ pc = "ins"
  /\ ~existing(page_id, shard_path)
  /\ rows' = [rows EXCEPT ![shard_path] = Append(@, page_id)]
  /\ mtimes' = Touch(shard_path)
  /\ inserted' = inserted \cup {page_id}
  /\ pc' = "idx"
  /\ UNCHANGED <<clock, shard_size_limit_bytes, index_file, checkpoint_file>>
  /\ UNCHANGED <<router, runner>>
  /\ exhausted' = exhausted \ {page_id}
  /\ UNCHANGED <<runs, completed, orderly, scanfail, faults, events, retired, loaded,
                 lastgood, predel, lastbound, slept, ret>>

\* insert_entry_to_shard, lines 227-231
IndexAdd ==
  /\ pc = "idx"
  /\ page_to_shard' = add_page(page_to_shard, page_id, shard_path)
  /\ index_file' = IF page_to_shard' # page_to_shard
                   THEN [st |-> "ok", map |-> page_to_shard'] ELSE index_file
  /\ pc' = "mark"
  /\ UNCHANGED <<clock, shard_size_limit_bytes, rows, mtimes, checkpoint_file>>
  /\ UNCHANGED <<current_shard_path, runner, history>>

\* process_batch, lines 313-315
MarkProcessed_forgets ==
  /\ pc = "mark"
  /\ processed_count' = processed_count + 1
  /\ i' = i + 1
  /\ retries' = 0
  /\ pc' = "rec"
  /\ UNCHANGED <<disk, router, history>>
  /\ UNCHANGED <<checkpoint, batch_size, offset, batch_num, shard_path>>
MarkProcessed ==
  /\ pc = "mark"
  /\ checkpoint' = [checkpoint EXCEPT !.processed_page_ids = Append(@, page_id)]
  /\ processed_count' = processed_count + 1
  /\ i' = i + 1
  /\ retries' = 0
  /\ pc' = "rec"
  /\ UNCHANGED <<disk, router, history>>
  /\ UNCHANGED <<batch_size, offset, batch_num, shard_path>>

\* process_batch, lines 316-319: what the except clause of
\* sqlite3.OperationalError does
Retry_without_counting ==
  /\ pc = "ins"
  /\ faults' = faults \cup {"transient"}
  /\ slept' = backoff(retries + 1)
  /\ retries' = retries /\ i' = i
  /\ exhausted' = exhausted
  /\ pc' = "rec"
  /\ UNCHANGED <<disk, router>>
  /\ UNCHANGED <<checkpoint, batch_size, offset, batch_num, processed_count, shard_path>>
  /\ UNCHANGED <<runs, completed, orderly, scanfail, retired, loaded, lastgood, predel, inserted, lastbound, ret>>
Retry ==
  /\ pc = "ins"
  /\ faults' = faults \cup {"transient"}
  /\ slept' = backoff(retries + 1)
  /\ IF retries + 1 < MAX_RETRIES
     THEN retries' = retries + 1 /\ i' = i
     ELSE retries' = 0 /\ i' = i + 1
  /\ exhausted' = IF retries + 1 < MAX_RETRIES THEN exhausted
                  ELSE exhausted \cup {page_id}
  /\ pc' = "rec"
  /\ UNCHANGED <<disk, router>>
  /\ UNCHANGED <<checkpoint, batch_size, offset, batch_num, processed_count, shard_path>>
  /\ UNCHANGED <<runs, completed, orderly, scanfail, retired, loaded, lastgood, predel, inserted, lastbound, ret>>

\* process_batch, lines 316-319: sqlite3.OperationalError.  A lock that
\* outlasts the retries of one record is one environment event.
TransientError_after_indexing ==
  /\ pc = "ins"
  /\ retries > 0 \/ events < MaxEvents
  /\ events' = IF retries = 0 THEN events + 1 ELSE events
  /\ faults' = faults \cup {"transient"}
  /\ slept' = backoff(retries + 1)
  /\ IF retries + 1 < MAX_RETRIES
     THEN retries' = retries + 1 /\ i' = i
     ELSE retries' = 0 /\ i' = i + 1
  /\ exhausted' = IF retries + 1 < MAX_RETRIES THEN exhausted
                  ELSE exhausted \cup {page_id}
  /\ pc' = "rec"
  /\ page_to_shard' = add_page(page_to_shard, page_id, shard_path)
  /\ index_file' = [st |-> "ok", map |-> page_to_shard']
  /\ UNCHANGED <<clock, shard_size_limit_bytes, rows, mtimes, checkpoint_file>>
  /\ UNCHANGED <<current_shard_path, checkpoint, batch_size, offset, batch_num,
                 processed_count, shard_path>>
  /\ UNCHANGED <<runs, completed, orderly, scanfail, retired, loaded, lastgood, predel, inserted, lastbound, ret>>
TransientError ==
  /\ retries > 0 \/ events < MaxEvents
  /\ events' = IF retries = 0 THEN events + 1 ELSE events
  /\ Retry

\* process_batch, lines 320-322: any other exception
PermanentError_retried ==
  /\ pc = "ins"
  /\ events < MaxEvents
  /\ events' = events + 1
  /\ faults' = faults \cup {"permanent"}
  /\ IF retries + 1 < MAX_RETRIES
     THEN retries' = retries + 1 /\ i' = i
     ELSE retries' = 0 /\ i' = i + 1
  /\ pc' = "rec"
  /\ UNCHANGED <<disk, router>>
  /\ UNCHANGED <<checkpoint, batch_size, offset, batch_num, processed_count, shard_path>>
  /\ UNCHANGED <<runs, completed, orderly, scanfail, retired, loaded, lastgood, predel, inserted, lastbound, slept, exhausted, ret>>
PermanentError ==
  /\ pc = "ins"
  /\ events < MaxEvents
  /\ events' = events + 1
  /\ faults' = faults \cup {"permanent"}
  /\ retries' = 0
  /\ i' = i + 1
  /\ pc' = "rec"
  /\ UNCHANGED <<disk, router>>
  /\ UNCHANGED <<checkpoint, batch_size, offset, batch_num, processed_count, shard_path>>
  /\ UNCHANGED <<runs, completed, orderly, scanfail, retired, loaded, lastgood, predel, inserted, lastbound, slept, exhausted, ret>>

\* process_batch line 324, migrate_database lines 386-390
UpdateCheckpoint_counts_batch ==
  /\ pc = "rec"
  /\ batch_done
  /\ Rebind
  /\ WriteTargetFiles
  /\ checkpoint' = [last_batch |-> batch_num,
                    entries_processed |-> offset + batch_size,
                    processed_page_ids |-> checkpoint.processed_page_ids,
                    current_shard |-> get_shard_for_writing]
  /\ pc' = "save"
  /\ UNCHANGED <<clock, shard_size_limit_bytes, index_file, checkpoint_file>>
  /\ UNCHANGED <<page_to_shard, batch_size, offset, batch_num, i, processed_count,
                 retries, shard_path>>
  /\ UNCHANGED <<runs, completed, orderly, scanfail, faults, events, loaded, lastgood, predel, inserted, slept, exhausted, ret>>
UpdateCheckpoint ==
  /\ pc = "rec"
  /\ batch_done
  /\ Rebind
  /\ WriteTargetFiles
  /\ checkpoint' = [last_batch |-> batch_num,
                    entries_processed |-> offset + processed_count,
                    processed_page_ids |-> checkpoint.processed_page_ids,
                    current_shard |-> get_shard_for_writing]
  /\ pc' = "save"
  /\ UNCHANGED <<clock, shard_size_limit_bytes, index_file, checkpoint_file>>
  /\ UNCHANGED <<page_to_shard, batch_size, offset, batch_num, i, processed_count,
                 retries, shard_path>>
  /\ UNCHANGED <<runs, completed, orderly, scanfail, faults, events, loaded, lastgood, predel, inserted, slept, exhausted, ret>>

\* save_checkpoint, line 275: open(path, 'w') truncates the file
SaveOpen ==
  /\ pc = "save"
  /\ checkpoint_file' = [st |-> "corrupt", data |-> DefaultCheckpoint]
  /\ pc' = "write"
  /\ UNCHANGED <<clock, shard_size_limit_bytes, rows, mtimes, index_file>>
  /\ UNCHANGED <<router, runner, history>>

\* save_checkpoint line 276, migrate_database lines 396-397
SaveWrite ==
  /\ pc = "write"
  /\ checkpoint_file' = [st |-> "ok", data |-> checkpoint]
  /\ lastgood' = checkpoint_file'
  /\ offset' = offset + batch_size
  /\ batch_num' = batch_num + 1
  /\ pc' = "pause"
  /\ UNCHANGED <<clock, shard_size_limit_bytes, rows, mtimes, index_file>>
  /\ UNCHANGED <<router, checkpoint, batch_size, i, processed_count, retries, shard_path>>
  /\ UNCHANGED <<runs, completed, orderly, scanfail, faults, events, retired, loaded, predel, inserted, lastbound, slept, exhausted, ret>>

\* save_checkpoint, lines 277-278: the open or the write raises
SaveFail_loses_checkpoint ==
  /\ pc \in {"save", "write"}
  /\ events < MaxEvents
  /\ events' = events + 1
  /\ faults' = faults \cup {"save"}
  /\ checkpoint' = DefaultCheckpoint
  /\ offset' = offset + batch_size
  /\ batch_num' = batch_num + 1
  /\ pc' = "pause"
  /\ UNCHANGED <<disk, router>>
  /\ UNCHANGED <<batch_size, i, processed_count, retries, shard_path>>
  /\ UNCHANGED <<runs, completed, orderly, scanfail, retired, loaded, lastgood, predel, inserted, lastbound, slept, exhausted, ret>>
SaveFail ==
  /\ pc \in {"save", "write"}
  /\ events < MaxEvents
  /\ events' = events + 1
  /\ faults' = faults \cup {"save"}
  /\ offset' = offset + batch_size
  /\ batch_num' = batch_num + 1
  /\ pc' = "pause"
  /\ UNCHANGED <<disk, router>>
  /\ UNCHANGED <<checkpoint, batch_size, i, processed_count, retries, shard_path>>
  /\ UNCHANGED <<runs, completed, orderly, scanfail, retired, loaded, lastgood, predel, inserted, lastbound, slept, exhausted, ret>>

\* migrate_database, lines 414-419: the pause ends
EndPause ==
  /\ pc = "pause"
  /\ pc' = "loop"
  /\ UNCHANGED <<disk, router, runner, history>>

\* rebuild_index: scans of the shards in `failed` raise and are logged
RebuildEffect(failed) ==
  /\ page_to_shard' = rebuild_map(failed)
  /\ index_file' = [st |-> "ok", map |-> rebuild_map(failed)]

\* migrate_database, lines 427-429
Rebuild ==
  /\ pc = "rebuild"
  /\ RebuildEffect({})
  /\ scanfail' = {}
  /\ pc' = "cleanup"
  /\ UNCHANGED <<clock, shard_size_limit_bytes, rows, mtimes, checkpoint_file>>
  /\ UNCHANGED <<current_shard_path, runner>>
  /\ UNCHANGED <<runs, completed, orderly, faults, events, retired, loaded, lastgood, predel, inserted, lastbound, slept, exhausted, ret>>

\* rebuild_index, lines 327-328: the scan of one shard raises
RebuildScanError(s) ==
  /\ pc = "rebuild"
  /\ s \in get_all_shard_paths
  /\ events < MaxEvents
  /\ events' = events + 1
  /\ faults' = faults \cup {"scan"}
  /\ RebuildEffect({s})
  /\ scanfail' = {s}
  /\ pc' = "cleanup"
  /\ UNCHANGED <<clock, shard_size_limit_bytes, rows, mtimes, checkpoint_file>>
  /\ UNCHANGED <<current_shard_path, runner>>
  /\ UNCHANGED <<runs, completed, orderly, retired, loaded, lastgood, predel, inserted, lastbound, slept, exhausted, ret>>

\* migrate_database, lines 431-438: os.remove succeeds
Cleanup ==
  /\ pc = "cleanup"
  /\ checkpoint_file' = AbsentFile
  /\ lastgood' = AbsentFile
  /\ pc' = "done"
  /\ RunnerReset
  /\ UNCHANGED <<clock, shard_size_limit_bytes, rows, mtimes, index_file>>
  /\ completed' = completed + 1
  /\ UNCHANGED <<router, runs, orderly, scanfail, faults, events, retired, loaded, predel, inserted, lastbound, slept, exhausted, ret>>

\* migrate_database, lines 435-436: os.remove raises
CleanupFail ==
  /\ pc = "cleanup"
  /\ checkpoint_file.st # "absent"
  /\ events < MaxEvents
  /\ events' = events + 1
  /\ faults' = faults \cup {"remove"}
  /\ pc' = "done"
  /\ RunnerReset
  /\ UNCHANGED <<disk, router>>
  /\ completed' = completed + 1
  /\ UNCHANGED <<runs, orderly, scanfail, retired, loaded, lastgood, predel, inserted, lastbound, slept, exhausted, ret>>

\* KeyboardInterrupt: migrate_database lines 421-425, main lines 501-504
Interrupt_saves ==
  /\ pc \in Running
  /\ events < MaxEvents
  /\ events' = events + 1
  /\ pc' = "interrupted"
  /\ checkpoint_file' = [st |-> "ok", data |-> checkpoint]
  /\ current_shard_path' = NoShard
  /\ page_to_shard' = EmptyMap
  /\ RunnerReset
  /\ loaded' = NoLoad
  /\ orderly' = (orderly /\ pc \in {"loop", "pause"})
  /\ UNCHANGED <<clock, shard_size_limit_bytes, rows, mtimes, index_file>>
  /\ UNCHANGED <<runs, completed, scanfail, faults, retired, lastgood, predel, inserted, lastbound, slept, exhausted, ret>>
Interrupt ==
  /\ pc \in Running
  /\ events < MaxEvents
  /\ events' = events + 1
  /\ pc' = "interrupted"
  /\ current_shard_path' = NoShard
  /\ page_to_shard' = EmptyMap
  /\ RunnerReset
  /\ loaded' = NoLoad
  /\ orderly' = (orderly /\ pc \in {"loop", "pause"})
  /\ UNCHANGED <<disk, runs, completed, scanfail, faults, retired, lastgood, predel, inserted, lastbound, slept, exhausted, ret>>

\* the index file is removed from the data directory
DeleteIndexFile ==
  /\ pc \in Stopped
  /\ index_file.st = "ok"
  /\ events < MaxEvents
  /\ events' = events + 1
  /\ faults' = faults \cup {"unlink"}
  /\ index_file' = AbsentIndex
  /\ predel' = [armed |-> TRUE, keys |-> DOMAIN index_file.map]
  /\ current_shard_path' = NoShard
  /\ page_to_shard' = EmptyMap
  /\ pc' = "idle"
  /\ UNCHANGED <<clock, shard_size_limit_bytes, rows, mtimes, checkpoint_file>>
  /\ UNCHANGED <<runner, runs, completed, orderly, scanfail, retired, loaded, lastgood, inserted, lastbound, slept, exhausted, ret>>

\* a process builds the router over the directory and calls rebuild_index
RebuildIndex ==
  /\ pc \in Stopped \ {"rebuilt"}
  /\ events < MaxEvents
  /\ events' = events + 1
  /\ scanfail' = {}
  /\ current_shard_path' = get_or_create_current_shard
  /\ rows' = init_db_rows(get_or_create_current_shard)
  /\ mtimes' = init_db_mtimes(get_or_create_current_shard)
  /\ page_to_shard' = rebuild_map({})
  /\ index_file' = [st |-> "ok", map |-> rebuild_map({})]
  /\ pc' = "rebuilt"
  /\ UNCHANGED <<clock, shard_size_limit_bytes, checkpoint_file>>
  /\ lastbound' = get_or_create_current_shard
  /\ UNCHANGED <<runner, runs, completed, orderly, faults, retired, loaded, lastgood, predel, inserted, slept, exhausted, ret>>

\* mark_top_nodes_sharded: builds the router, then updates training_metadata
\* rows of a shard that holds entries
MarkTopNodes(s) ==
  /\ pc \in Stopped
  /\ s \in get_all_shard_paths
  /\ rows[s] # <<>>
  /\ events < MaxEvents
  /\ events' = events + 1
  /\ faults' = faults \cup {"touch"}
  /\ rows' = init_db_rows(get_or_create_current_shard)
  /\ mtimes' = Append(Without(init_db_mtimes(get_or_create_current_shard), s), s)
  /\ UNCHANGED <<clock, shard_size_limit_bytes, index_file, checkpoint_file>>
  /\ lastbound' = get_or_create_current_shard
  /\ UNCHANGED <<pc, router, runner>>
  /\ UNCHANGED <<runs, completed, orderly, scanfail, retired, loaded, lastgood, predel, inserted, slept, exhausted, ret>>

Next ==
  \/ Tick
  \/ \E f \in BOOLEAN, b \in BatchSizes : StartRun(f, b)
  \/ BeginBatch
  \/ EndLoop
  \/ SkipProcessed
  \/ BeginAttempt
  \/ SkipExisting
  \/ InsertCommit
  \/ IndexAdd
  \/ MarkProcessed
  \/ TransientError
  \/ PermanentError
  \/ UpdateCheckpoint
  \/ SaveOpen
  \/ SaveWrite
  \/ SaveFail
  \/ EndPause
  \/ Rebuild
  \/ \E s \in Months : RebuildScanError(s)
  \/ Cleanup
  \/ CleanupFail
  \/ Interrupt
  \/ DeleteIndexFile
  \/ RebuildIndex
  \/ \E s \in Months : MarkTopNodes(s)

Spec == Init /\ [][Next]_vars

\* ------------------------------------------- the router called directly
\* The methods of ShardedChangelogDB and ShardIndex, called one at a time by
\* a process that runs no migration, with the environment changing the
\* month, removing shard files and failing file operations in between.

\* keys handed to the index methods
IndexedKeys == 1..2

\* what no direct call touches
aside == <<checkpoint_file, pc, runner, runs, completed, orderly, scanfail, faults,
           retired, loaded, lastgood, predel, inserted, lastbound, slept, exhausted>>

Call(op, k) == [NoCall EXCEPT !.op = op, !.key = k]

\* ShardedChangelogDB.__init__
Construct_load_raises ==
  /\ IF index_file.st = "ok"
     THEN /\ RouterInit
          /\ ret' = [Call("init", NoKey) EXCEPT !.out = <<get_or_create_current_shard>>]
     ELSE /\ ret' = [Call("init", NoKey) EXCEPT !.raised = TRUE]
          /\ UNCHANGED <<rows, mtimes, router>>
  /\ UNCHANGED <<clock, shard_size_limit_bytes, index_file, checkpoint_file, events, aside>>
Construct ==
  /\ RouterInit
  /\ ret' = [Call("init", NoKey) EXCEPT !.out = <<get_or_create_current_shard>>]
  /\ UNCHANGED <<clock, shard_size_limit_bytes, index_file, events, aside>>

\* ShardedChangelogDB.__init__: init_db raises in _create_new_shard
\* (sqlite3.connect cannot open the file), no router object comes to exist
ConstructFails ==
  /\ events < MaxEvents
  /\ events' = events + 1
  /\ init_creates_shard
  /\ ret' = [Call("init", NoKey) EXCEPT !.raised = TRUE]
  /\ UNCHANGED <<disk, router, aside>>

\* get_shard_for_writing
GetShardForWriting_recreates ==
  /\ current_shard_path # NoShard
  /\ current_shard_path' = get_shard_for_writing
  /\ rows' = init_db_rows(get_shard_for_writing)
  /\ mtimes' = init_db_mtimes(get_shard_for_writing)
  /\ ret' = [Call("write", NoKey) EXCEPT !.out = <<get_shard_for_writing>>]
  /\ UNCHANGED <<clock, shard_size_limit_bytes, index_file, checkpoint_file>>
  /\ UNCHANGED <<page_to_shard, events, aside>>
GetShardForWriting ==
  /\ current_shard_path # NoShard
  /\ current_shard_path' = get_shard_for_writing
  /\ WriteTargetFiles
  /\ ret' = [Call("write", NoKey) EXCEPT !.out = <<get_shard_for_writing>>]
  /\ UNCHANGED <<clock, shard_size_limit_bytes, index_file, checkpoint_file>>
  /\ UNCHANGED <<page_to_shard, events, aside>>

\* get_shard_for_writing, line 252: init_db raises in _create_new_shard
\* (sqlite3.connect cannot open the file), the assignment of line 252 is not
\* reached
GetShardForWritingFails_rebinds ==
  /\ current_shard_path # NoShard
  /\ events < MaxEvents
  /\ events' = events + 1
  /\ check_shard_size(current_shard_path)
  /\ current_shard_path' = new_shard_name
  /\ ret' = [Call("write", NoKey) EXCEPT !.raised = TRUE]
  /\ UNCHANGED <<disk, page_to_shard, aside>>
GetShardForWritingFails ==
  /\ current_shard_path # NoShard
  /\ events < MaxEvents
  /\ events' = events + 1
  /\ check_shard_size(current_shard_path)
  /\ ret' = [Call("write", NoKey) EXCEPT !.raised = TRUE]
  /\ UNCHANGED <<disk, router, aside>>

\* get_shard_for_reading(page_id)
GetShardForReading(k) ==
  /\ current_shard_path # NoShard
  /\ ret' = [Call("read", k) EXCEPT !.out = get_shard_for_reading(k)]
  /\ UNCHANGED <<disk, router, events, aside>>

\* get_db_connection(None, for_writing = False), db_schema.py lines 28-47:
\* the singleton router exists; shards[0] of the name-sorted listing is
\* opened, or create_new_shard() is called when there is no shard
GetDbConnection ==
  /\ current_shard_path # NoShard
  /\ IF get_all_shards # <<>>
     THEN /\ ret' = [Call("connect", NoKey) EXCEPT !.out = <<get_all_shards[1]>>]
          /\ UNCHANGED <<rows, mtimes, current_shard_path>>
     ELSE /\ current_shard_path' = new_shard_name
          /\ rows' = init_db_rows(new_shard_name)
          /\ mtimes' = init_db_mtimes(new_shard_name)
          /\ ret' = [Call("connect", NoKey) EXCEPT !.out = <<new_shard_name>>]
  /\ UNCHANGED <<clock, shard_size_limit_bytes, index_file, checkpoint_file>>
  /\ UNCHANGED <<page_to_shard, events, aside>>

\* a client's INSERT into the bound shard (insert_entry_to_shard, lines
\* 157-224), made while the size check of that shard is negative; the n-th
\* record stored in a shard has key n
Store ==
  /\ current_shard_path \in DOMAIN rows
  /\ ~check_shard_size(current_shard_path)
  /\ Len(rows[current_shard_path]) < NumRecords
  /\ rows' = [rows EXCEPT ![current_shard_path] = Append(@, Len(@) + 1)]
  /\ mtimes' = Touch(current_shard_path)
  /\ UNCHANGED <<clock, shard_size_limit_bytes, index_file, checkpoint_file>>
  /\ UNCHANGED <<router, events, ret, aside>>

\* ShardIndex.add_page(page_id, shard_path) with the bound shard, save()
\* succeeding when it is called
AddPage_always_saves(k) ==
  /\ current_shard_path # NoShard
  /\ page_to_shard' = add_page(page_to_shard, k, current_shard_path)
  /\ index_file' = [st |-> "ok", map |-> page_to_shard']
  /\ ret' = [Call("put", k) EXCEPT !.saved = TRUE]
  /\ UNCHANGED <<clock, shard_size_limit_bytes, rows, mtimes, checkpoint_file>>
  /\ UNCHANGED <<current_shard_path, events, aside>>
AddPage(k) ==
  /\ current_shard_path # NoShard
  /\ page_to_shard' = add_page(page_to_shard, k, current_shard_path)
  /\ index_file' = IF page_to_shard' # page_to_shard
                   THEN [st |-> "ok", map |-> page_to_shard'] ELSE index_file
  /\ ret' = [Call("put", k) EXCEPT !.saved = (page_to_shard' # page_to_shard)]
  /\ UNCHANGED <<clock, shard_size_limit_bytes, rows, mtimes, checkpoint_file>>
  /\ UNCHANGED <<current_shard_path, events, aside>>

\* ShardIndex.save, lines 119-127: open() or json.dump raises; the error is
\* logged and save returns.  open(path, 'w') has truncated the file when
\* the failure comes after it.
SaveFailure ==
  /\ events < MaxEvents
  /\ events' = events + 1
  /\ index_file' \in {index_file, [st |-> "corrupt", map |-> EmptyMap]}

\* ShardIndex.add_page, the write of save() failing
AddPageSaveFails(k) ==
  /\ current_shard_path # NoShard
  /\ add_page(page_to_shard, k, current_shard_path) # page_to_shard
  /\ page_to_shard' = add_page(page_to_shard, k, current_shard_path)
  /\ SaveFailure
  /\ ret' = [Call("put", k) EXCEPT !.saved = TRUE, !.failed = TRUE]
  /\ UNCHANGED <<clock, shard_size_limit_bytes, rows, mtimes, checkpoint_file>>
  /\ UNCHANGED <<current_shard_path, aside>>

\* ShardIndex.remove_page(page_id), save() succeeding when it is called
RemovePage(k) ==
  /\ current_shard_path # NoShard
  /\ page_to_shard' = remove_page(page_to_shard, k)
  /\ index_file' = IF k \in DOMAIN page_to_shard
                   THEN [st |-> "ok", map |-> page_to_shard'] ELSE index_file
  /\ ret' = [Call("remove", k) EXCEPT !.saved = (k \in DOMAIN page_to_shard)]
  /\ UNCHANGED <<clock, shard_size_limit_bytes, rows, mtimes, checkpoint_file>>
  /\ UNCHANGED <<current_shard_path, events, aside>>

\* ShardIndex.remove_page, the write of save() failing
RemovePageSaveFails(k) ==
  /\ current_shard_path # NoShard
  /\ k \in DOMAIN page_to_shard
  /\ page_to_shard' = remove_page(page_to_shard, k)
  /\ SaveFailure
  /\ ret' = [Call("remove", k) EXCEPT !.saved = TRUE, !.failed = TRUE]
  /\ UNCHANGED <<clock, shard_size_limit_bytes, rows, mtimes, checkpoint_file>>
  /\ UNCHANGED <<current_shard_path, aside>>

\* the environment removes a shard file
DeleteShardFile(s) ==
  /\ events < MaxEvents
  /\ events' = events + 1
  /\ s \in DOMAIN rows
  /\ rows' = [x \in DOMAIN rows \ {s} |-> rows[x]]
  /\ mtimes' = Without(mtimes, s)
  /\ ret' = NoCall
  /\ UNCHANGED <<clock, shard_size_limit_bytes, index_file, checkpoint_file>>
  /\ UNCHANGED <<router, aside>>

RouterNext ==
  \/ Tick
  \/ Construct
  \/ ConstructFails
  \/ GetShardForWriting
  \/ GetShardForWritingFails
  \/ \E k \in IndexedKeys \cup {NoKey} : GetShardForReading(k)
  \/ GetDbConnection
  \/ Store
  \/ \E k \in IndexedKeys : AddPage(k)
  \/ \E k \in IndexedKeys : AddPageSaveFails(k)
  \/ \E k \in IndexedKeys : RemovePage(k)
  \/ \E k \in IndexedKeys : RemovePageSaveFails(k)
  \/ \E s \in Months : DeleteShardFile(s)

RouterSpec == Init /\ [][RouterNext]_vars

\* --------------------------------------------- the migration under fairness
\* The migration run by a process that keeps executing: whenever a run is
\* under way its next statement is eventually executed, and nothing
\* interrupts it.  A lock held on the shard when a run starts may last for
\* any number of insert attempts.  A run starts on the empty directory or
\* over the checkpoint file an earlier run has left.

LiveBatchSizes == {1, 3}

\* an insert attempt raises sqlite3.OperationalError because of a lock that
\* has been held since before the run's first insert
InsertLocked ==
  /\ inserted = {}
  /\ Retry
  /\ UNCHANGED events

\* the statements of migrate_database and of what it calls
Proceed ==
  \/ BeginBatch
  \/ EndLoop
  \/ SkipProcessed
  \/ BeginAttempt
  \/ SkipExisting
  \/ InsertCommit
  \/ IndexAdd
  \/ MarkProcessed
  \/ InsertLocked
  \/ PermanentError
  \/ UpdateCheckpoint
  \/ SaveOpen
  \/ SaveWrite
  \/ SaveFail
  \/ EndPause
  \/ Rebuild
  \/ \E s \in Months : RebuildScanError(s)
  \/ Cleanup
  \/ CleanupFail

\* migrate_database is called
LiveStart(force_restart, b) ==
  /\ runs = 0 \/ checkpoint_file.st # "absent"
  /\ StartRun(force_restart, b)

LiveNext ==
  \/ \E f \in BOOLEAN, b \in LiveBatchSizes : LiveStart(f, b)
  \/ Proceed

LiveSpec == Init /\ [][LiveNext]_vars /\ WF_vars(Proceed)

\* ------------------------------------------------------------ properties
AllShardKeys == UNION {shard_keys(s) : s \in DOMAIN rows}

SourceKeys == Range(Source)

Count(seq, k) == Cardinality({n \in DOMAIN seq : seq[n] = k})

TotalRows == Cardinality({<<s, n>> \in Months \X (1..NumRecords) :
                             s \in DOMAIN rows /\ n <= Len(rows[s])})

NoInsertFault == faults \cap {"transient", "permanent"} = {}

Attempting == pc \in {"ins", "idx", "mark"}

\* C1: when a migration run has returned normally and no insertion has
\* failed, whether it was the first run or a run after an earlier complete
\* or interrupted one, the shards together hold exactly the source's keys
\* (what one uninterrupted run leaves) and no shard holds a key twice.
C1_IdempotentMigration ==
  (pc = "done" /\ NoInsertFault) =>
    /\ AllShardKeys = SourceKeys
    /\ \A s \in DOMAIN rows : \A k \in Keys : Count(rows[s], k) <= 1

C1_Witness ==
  /\ pc = "done"
  /\ completed >= 2
  /\ NoInsertFault
  /\ Cardinality(DOMAIN rows) >= 2

\* C2: no key is stored in more than one shard.
C2_NoKeyInTwoShards ==
  \A s \in DOMAIN rows : \A t \in DOMAIN rows :
    s # t => shard_keys(s) \cap shard_keys(t) = {}

\* a step in which get_shard_for_writing is called
WriteTargetCall == pc = "rec" /\ pc' \in {"ins", "save"}

\* C3: when get_shard_for_writing is called while the current write shard's
\* size is at or over the limit, the shard it rebinds to and returns is a
\* newly created shard, distinct from the current one.
C3_RotationCreatesNewShard ==
  [][(WriteTargetCall /\ check_shard_size(current_shard_path)) =>
       /\ current_shard_path' # current_shard_path
       /\ current_shard_path' \notin DOMAIN rows
       /\ current_shard_path' \in DOMAIN rows']_vars

\* C4: a shard that get_shard_for_writing rotated away from is never again
\* the write target, neither by a later call nor by a later construction
\* of the router.
C4_RetiredNeverSelected == current_shard_path \notin retired

C4_Witness ==
  /\ retired # {}
  /\ runs >= 2
  /\ pc = "loop"
  /\ batch_num = loaded.last_batch + 1

C6_InterruptKeepsCheckpoint ==
  pc = "interrupted" =>
    /\ checkpoint_file.st # "corrupt"
    /\ checkpoint_file = lastgood

NoRunFault == faults \cap {"transient", "permanent", "save", "remove"} = {}

\* C7: a migration whose interrupts all fell between batches and whose
\* restarts all resumed from the checkpoint, with no insertion, save or
\* remove failure, ends (the first time a run returns normally) with every
\* source key stored exactly once across the shards and with no checkpoint
\* file.
C7_InterruptedThenResumed ==
  (pc = "done" /\ completed = 1 /\ orderly /\ NoRunFault) =>
    /\ AllShardKeys = SourceKeys
    /\ TotalRows = NumRecords
    /\ checkpoint_file.st = "absent"

C7_Witness ==
  /\ pc = "done"
  /\ orderly
  /\ NoRunFault
  /\ completed = 1
  /\ loaded.resumed
  /\ loaded.last_batch = 1
  /\ loaded.entries_processed < total_entries

Rebuilt == pc \in {"cleanup", "done", "rebuilt"}

C9_RebuildMatchesDeletedIndex ==
  (pc = "rebuilt" /\ predel.armed) => DOMAIN page_to_shard = predel.keys

FirstShard == CHOOSE s \in DOMAIN rows : \A t \in DOMAIN rows : s <= t

\* the scenario of C10: limit 100, one migration run with no insertion
\* failure, in which the fifth record has just been committed
Scenario10 ==
  /\ shard_size_limit_bytes = 100
  /\ runs = 1
  /\ NoInsertFault
  /\ TotalRows = 5
  /\ pc = "idx"

Binding ==
  \/ pc \in Stopped /\ pc' \in {"loop", "rebuilt"}
  \/ WriteTargetCall /\ check_shard_size(current_shard_path)

\* C11: whenever the router binds its write shard, at construction or on
\* rotation, the size of the shard it binds to is below the limit.
C11_BoundShardUnderLimit ==
  [][Binding =>
       Len(rows'[current_shard_path']) * RecordSize < shard_size_limit_bytes]_vars

\* the processed keys of the checkpoint the migration holds: in memory while
\* it runs, on disk once it has stopped
processed_keys ==
  IF pc \in Running THEN Range(checkpoint.processed_page_ids)
  ELSE Range(load_checkpoint.processed_page_ids)

\* C12 as stated: at every point of a migration run, and at the point an
\* interrupt leaves it, the checkpoint's processed keys include every key
\* the run has inserted into a shard.
C12_ProcessedCoversInserted ==
  (pc \in Running \cup {"interrupted"}) => inserted \subseteq processed_keys

\* C12 as amended: while the run executes, the in-memory processed keys
\* include every key the run has inserted except the key of the record whose
\* insertion is in progress; the checkpoint file, when a save has just
\* completed, includes every key the run has inserted.
C12_ProcessedCoversMarked ==
  /\ (pc \in Running \ {"idx", "mark"}) =>
        inserted \subseteq Range(checkpoint.processed_page_ids)
  /\ (pc \in {"idx", "mark"}) =>
        inserted \ {page_id} \subseteq Range(checkpoint.processed_page_ids)
  /\ (pc = "pause" /\ checkpoint_file = [st |-> "ok", data |-> checkpoint]) =>
        inserted \subseteq Range(checkpoint_file.data.processed_page_ids)

C12_Witness ==
  /\ pc = "idx"
  /\ page_id \in inserted
  /\ inserted \ {page_id} # {}
  /\ page_id \notin Range(checkpoint.processed_page_ids)

\* C13: between runs, an absent checkpoint file means that the migration has
\* stored nothing yet or that a run has completed, and a present one means
\* that the last run did not complete.
C13_CheckpointFileSignal ==
  pc \in Stopped =>
    /\ checkpoint_file.st = "absent" => (AllShardKeys = {} \/ completed >= 1)
    /\ checkpoint_file.st # "absent" => pc # "done"

\* C14: the checkpoint file is removed only by a run that has read the whole
\* source and whose rebuild_index call has returned.
C14_DeleteOnlyAfterRebuild ==
  [][(checkpoint_file.st # "absent" /\ checkpoint_file'.st = "absent") =>
       /\ pc = "cleanup"
       /\ offset >= total_entries
       /\ index_file.st = "ok"
       /\ page_to_shard = rebuild_map(scanfail)]_vars

C14_Witness ==
  /\ pc = "done"
  /\ loaded.resumed
  /\ checkpoint_file.st = "absent"

\* a step in which a process constructs the router
RouterConstruct == pc \in Stopped /\ pc' \in {"loop", "rebuilt"}

\* C15: a router constructed after a restart binds to the write shard the
\* previous router was bound to, when that shard is still under the limit
\* and nothing but router writes has touched the shard files.
C15_RestartKeepsWriteShard ==
  [][(/\ RouterConstruct
      /\ lastbound # NoShard
      /\ ~check_shard_size(lastbound)
      /\ "touch" \notin faults) => current_shard_path' = lastbound]_vars

C15_Witness ==
  /\ runs >= 2
  /\ pc = "loop"
  /\ batch_num = loaded.last_batch + 1
  /\ Cardinality(DOMAIN rows) >= 2
  /\ rows[current_shard_path] # <<>>
  /\ ~check_shard_size(current_shard_path)
  /\ "touch" \notin faults

C17_ExhaustedRetriedLater ==
  [][/\ exhausted \cap Range(checkpoint.processed_page_ids) = {}
     /\ exhausted \cap Range(load_checkpoint.processed_page_ids) = {}
     /\ (pc \in Stopped /\ pc' = "loop" /\ loaded'.resumed) =>
          \A n \in 1..total_entries : Source[n] \in exhausted => offset' < n]_vars

\* C18: when a batch ends, the checkpoint's entries_processed grows by the
\* number of records of the batch that were processed successfully and its
\* last_batch becomes the batch number; when the save returns, the offset
\* advances by batch_size.
C18_CheckpointAdvance ==
  [][/\ (pc = "rec" /\ pc' = "save") =>
          /\ checkpoint'.entries_processed =
               checkpoint.entries_processed + processed_count
          /\ checkpoint'.last_batch = batch_num
     /\ (pc \in {"save", "write"} /\ pc' = "pause") =>
          offset' = offset + batch_size]_vars

\* C19: a run starts at the offset its checkpoint records; with no
\* checkpoint file, or with force_restart, it starts at offset 0 with no
\* processed keys, whatever an existing file holds; with a readable file and
\* no force_restart its checkpoint is the file's.
C19_StartingOffset ==
  [][(pc \in Stopped /\ pc' = "loop") =>
       /\ offset' = checkpoint'.entries_processed
       /\ (checkpoint_file.st = "absent" \/ loaded'.forced) =>
            (offset' = 0 /\ checkpoint'.processed_page_ids = <<>>)
       /\ (checkpoint_file.st = "ok" /\ ~loaded'.forced) =>
            checkpoint' = checkpoint_file.data]_vars

C19_Witness ==
  /\ pc = "loop"
  /\ loaded.forced
  /\ checkpoint_file.st = "ok"
  /\ checkpoint_file.data.entries_processed > 0
  /\ offset = 0
  /\ batch_num = 1
  /\ checkpoint.processed_page_ids = <<>>

\* C20: the checkpoint file is written only when every record of the
\* current batch has been gone through, and what is written names that
\* batch as last_batch.
C20_WrittenAfterWholeBatch ==
  [][(checkpoint_file' # checkpoint_file /\ checkpoint_file'.st # "absent") =>
       /\ pc \in {"save", "write"}
       /\ i > Len(entries)
       /\ checkpoint_file'.st = "ok" => checkpoint_file'.data.last_batch = batch_num]_vars

C20_Witness ==
  /\ pc = "pause"
  /\ checkpoint_file = [st |-> "ok", data |-> checkpoint]
  /\ checkpoint_file.data.last_batch = 2
  /\ batch_num = 3
  /\ offset = 2 * batch_size

\* C21: an insertion whose key is already in the target shard changes
\* neither a shard nor the index file; when it returns, the in-memory index
\* is unchanged too and the key is then marked processed; no shard ever
\* holds a key twice.
C21_InsertExistingIsNoOp ==
  [][/\ (pc = "ins" /\ existing(page_id, shard_path)) =>
          /\ rows' = rows
          /\ index_file' = index_file
          /\ pc' = "mark" => page_to_shard' = page_to_shard
     /\ (pc = "mark" /\ pc' = "rec") =>
          page_id \in Range(checkpoint'.processed_page_ids)
     /\ \A s \in DOMAIN rows : \A k \in Keys : Count(rows[s], k) <= 1]_vars

C21_Witness ==
  /\ pc = "rec"
  /\ i > 1
  /\ entries[i - 1] \notin inserted
  /\ entries[i - 1] \notin loaded.S
  /\ entries[i - 1] \in Range(checkpoint.processed_page_ids)
  /\ faults = {}

\* C22 as stated: a run stops on an interrupt only between batches.
C22_InterruptOnlyBetweenBatches ==
  [][(pc \in Running /\ pc' = "interrupted") => pc \in {"loop", "pause"}]_vars

\* C22 as amended: an interrupt stops the run where it arrives, inside a
\* batch too, and nothing is saved for the batch in progress: shards, index
\* file and checkpoint file stay as the interrupt found them, a readable
\* checkpoint file is the one the last completed save wrote, and the records
\* the run has committed are in the shards.
C22_InterruptStopsAtOnce ==
  [][(pc \in Running /\ pc' = "interrupted") =>
       /\ rows' = rows
       /\ index_file' = index_file
       /\ checkpoint_file' = checkpoint_file
       /\ checkpoint_file'.st = "ok" => checkpoint_file' = lastgood'
       /\ inserted' \subseteq AllShardKeys']_vars

C22_Witness ==
  /\ pc = "interrupted"
  /\ ~orderly
  /\ checkpoint_file.st = "ok"
  /\ inserted \ Range(checkpoint_file.data.processed_page_ids) # {}
  /\ faults = {}

\* a run resumed from a checkpoint whose offset is at or past the source's end
StaleResume(l) == l.resumed /\ l.entries_processed >= total_entries

\* C23: a run resumed from a checkpoint whose offset is at or past the end
\* of the source fetches no batch and inserts nothing: from its start on, the
\* contents of every shard stay as they were; it goes from the loop test to
\* rebuild_index, which indexes every key of the shards, and then removes
\* the checkpoint file.
C23_StaleResumeDoesNothing ==
  [][/\ (pc \in Stopped /\ pc' = "loop" /\ StaleResume(loaded')) =>
          \A s \in DOMAIN rows : rows'[s] = rows[s]
     /\ (pc \in Running /\ StaleResume(loaded)) =>
          /\ \A s \in DOMAIN rows : rows'[s] = rows[s]
          /\ inserted' = {}
          /\ pc = "loop" => pc' \in {"rebuild", "interrupted"}
          /\ (pc = "rebuild" /\ pc' = "cleanup" /\ scanfail' = {}) =>
               (index_file'.st = "ok" /\ DOMAIN index_file'.map = AllShardKeys)
          /\ (pc = "cleanup" /\ pc' = "done" /\ events' = events) =>
               checkpoint_file'.st = "absent"]_vars

C23_Witness ==
  /\ pc = "done"
  /\ StaleResume(loaded)
  /\ completed = 2
  /\ "remove" \in faults
  /\ checkpoint_file.st = "absent"
  /\ DOMAIN index_file.map = SourceKeys

\* C24: an insertion attempt that fails with a non-retryable error (no
\* retry delay follows it) is the last attempt for its record in the pass:
\* the next record is taken, the processed keys, the count of processed
\* records and the shards are unchanged.
C24_NonRetryableSkips ==
  [][(pc = "ins" /\ pc' = "rec" /\ slept' = 0) =>
       /\ i' = i + 1
       /\ retries' = 0
       /\ checkpoint' = checkpoint
       /\ processed_count' = processed_count
       /\ rows' = rows]_vars

C24_Witness ==
  /\ pc = "idx"
  /\ i = 2
  /\ faults = {"permanent"}
  /\ entries[1] \notin AllShardKeys
  /\ entries[1] \notin Range(checkpoint.processed_page_ids)
  /\ entries[2] \in inserted

\* C25: the router's construction binds the write shard: with no shard on
\* disk, to a shard it creates; otherwise to the most recently modified
\* shard when that is under the limit, and to a newly created shard when it
\* is at the limit.
C25_RouterInitBinding ==
  [][RouterConstruct =>
       /\ get_all_shard_paths = {} =>
            /\ DOMAIN rows' = {current_shard_path'}
            /\ rows'[current_shard_path'] = <<>>
       /\ (get_all_shard_paths # {} /\ ~check_shard_size(most_recent_shard)) =>
            /\ current_shard_path' = most_recent_shard
            /\ rows' = rows
       /\ (get_all_shard_paths # {} /\ check_shard_size(most_recent_shard)) =>
            /\ current_shard_path' \notin DOMAIN rows
            /\ current_shard_path' \in DOMAIN rows'
            /\ rows'[current_shard_path'] = <<>>]_vars

\* C27: every insert of the migration goes to the shard that the
\* get_shard_for_writing call made for it returned, that shard is the router's
\* current_shard_path, and the insert leaves every other shard as it was.
C27_InsertGoesToWriteTarget ==
  [][/\ WriteTargetCall /\ pc' = "ins" =>
          /\ shard_path' = get_shard_for_writing
          /\ shard_path' = current_shard_path'
     /\ (pc = "ins" /\ pc' = "idx") =>
          /\ shard_path = current_shard_path
          /\ DOMAIN rows' = DOMAIN rows
          /\ shard_keys(shard_path)' = shard_keys(shard_path) \cup {page_id}
          /\ \A s \in DOMAIN rows \ {current_shard_path} : rows'[s] = rows[s]]_vars

\* an insert has just been committed while an older shard holds records
C27_Witness ==
  /\ pc = "idx"
  /\ page_id \in shard_keys(current_shard_path)
  /\ \E s \in DOMAIN rows \ {current_shard_path} : rows[s] # <<>>

\* a direct call of the named method has just returned or raised
Returned(op) == ret'.op = op /\ ret' # ret

\* C26: get_shard_for_reading(key) returns exactly the one indexed shard when
\* the key is in the index and that shard file exists; with no key, with a
\* key that is not indexed, or with an indexed shard that is missing, it
\* returns all the shards on disk.
C26_ReadTargets ==
  [][Returned("read") =>
       IF /\ ret'.key # NoKey
          /\ ret'.key \in DOMAIN page_to_shard
          /\ page_to_shard[ret'.key] \in DOMAIN rows
       THEN ret'.out = <<page_to_shard[ret'.key]>>
       ELSE /\ Range(ret'.out) = DOMAIN rows
            /\ Len(ret'.out) = Cardinality(DOMAIN rows)]_vars

\* a read of an indexed key whose shard file is gone has returned the
\* shards that are left
C26_Witness ==
  /\ ret.op = "read"
  /\ ret.key \in DOMAIN page_to_shard
  /\ page_to_shard[ret.key] \notin DOMAIN rows
  /\ ret.out = get_all_shards
  /\ ret.out # <<>>

\* C28: when init_db fails in _create_new_shard, the constructor or
\* get_shard_for_writing raises: nothing is returned, the creation is not
\* tried again, and current_shard_path is what it was before the call.
C28_CreateFailurePropagates ==
  [][(ret'.op \in {"init", "write"} /\ events' = events + 1) =>
       /\ ret'.raised
       /\ ret'.out = <<>>
       /\ current_shard_path' = current_shard_path
       /\ new_shard_name \notin DOMAIN rows => new_shard_name \notin DOMAIN rows']_vars

\* get_shard_for_writing has raised on a router bound to a full shard of an
\* earlier month
C28_Witness ==
  /\ ret.op = "write"
  /\ ret.raised
  /\ check_shard_size(current_shard_path)
  /\ new_shard_name \notin DOMAIN rows

\* C29: a write shard whose file is missing passes the size check as not at
\* the limit, without an error: get_shard_for_writing returns it, stays bound
\* to it and creates no file.
C29_MissingShardKept ==
  [][(Returned("write") /\ current_shard_path \notin DOMAIN rows) =>
       /\ ~check_shard_size(current_shard_path)
       /\ ~ret'.raised
       /\ ret'.out = <<current_shard_path>>
       /\ current_shard_path' = current_shard_path
       /\ rows' = rows]_vars

\* get_shard_for_writing has returned the bound shard, whose file is gone,
\* while another shard file exists
C29_Witness ==
  /\ ret.op = "write"
  /\ ~ret.raised
  /\ current_shard_path \notin DOMAIN rows
  /\ ret.out = <<current_shard_path>>
  /\ DOMAIN rows # {}

\* C30: add_page is a no-op with no disk write when the key already maps to
\* that shard, otherwise it updates the map and saves at once, so that after
\* every add_page or remove_page that returns, the index file holds the
\* in-memory map.
C30_FileEqualsMapAfterCall ==
  [][(Returned("put") \/ Returned("remove")) => load_index' = page_to_shard']_vars

\* C30, amended: add_page leaves the map alone and writes nothing when the
\* key already maps to that shard, and remove_page when the key is not
\* indexed; otherwise the map is updated and save() is called at once.  After
\* a call that changed the map the index file holds the in-memory map unless
\* the write of save() failed, which save() logs without raising.
C30_WriteThroughUnlessSaveFails ==
  [][(Returned("put") \/ Returned("remove")) =>
       /\ ~ret'.raised
       /\ Returned("put") =>
            /\ page_to_shard' = Put(page_to_shard, ret'.key, current_shard_path)
            /\ (page_to_shard' = page_to_shard) <=>
                 /\ ret'.key \in DOMAIN page_to_shard
                 /\ page_to_shard[ret'.key] = current_shard_path
       /\ Returned("remove") =>
            /\ DOMAIN page_to_shard' = DOMAIN page_to_shard \ {ret'.key}
            /\ \A k \in DOMAIN page_to_shard' : page_to_shard'[k] = page_to_shard[k]
       /\ page_to_shard' = page_to_shard =>
            /\ ~ret'.saved
            /\ index_file' = index_file
       /\ page_to_shard' # page_to_shard =>
            /\ ret'.saved
            /\ ~ret'.failed => index_file' = [st |-> "ok", map |-> page_to_shard']]_vars

\* an add_page has moved an indexed key to another shard and saved the map
\* of two keys
C30_Witness ==
  /\ ret.op = "put"
  /\ ret.saved
  /\ ~ret.failed
  /\ index_file = [st |-> "ok", map |-> page_to_shard]
  /\ DOMAIN page_to_shard = IndexedKeys
  /\ \E k \in IndexedKeys : page_to_shard[k] # current_shard_path

\* C31: loading the index never fails the caller: when the index file is
\* absent or cannot be parsed, the constructor returns a router whose index is
\* empty and which is bound to an existing shard.
C31_IndexLoadNeverFails ==
  [][(Returned("init") /\ events' = events) =>
       /\ ~ret'.raised
       /\ index_file.st = "ok" => page_to_shard' = index_file.map
       /\ index_file.st # "ok" =>
            /\ page_to_shard' = EmptyMap
            /\ ret'.out = <<current_shard_path'>>
            /\ current_shard_path' \in DOMAIN rows']_vars

\* the constructor has returned over an index file that a failed save left
\* truncated
C31_Witness ==
  /\ ret.op = "init"
  /\ ~ret.raised
  /\ index_file.st = "corrupt"
  /\ page_to_shard = EmptyMap
  /\ current_shard_path \in DOMAIN rows

\* migrate_database has just been called
RunStarts == runs' = runs + 1

\* C32: load_checkpoint never raises: over a checkpoint file that is absent or
\* cannot be parsed it returns the default checkpoint (last_batch 0,
\* entries_processed 0, no processed ids), and the run that loaded it starts
\* at offset 0 with batch 1.
C32_CheckpointLoadNeverRaises ==
  [][(RunStarts /\ checkpoint_file.st # "ok") =>
       /\ load_checkpoint = DefaultCheckpoint
       /\ pc' = "loop"
       /\ checkpoint' = DefaultCheckpoint
       /\ offset' = 0
       /\ batch_num' = 1]_vars

\* a run has started without force_restart over a checkpoint file that an
\* interrupted save left truncated, after an earlier save had succeeded
C32_Witness ==
  /\ pc = "loop"
  /\ checkpoint_file.st = "corrupt"
  /\ ~loaded.forced
  /\ ~loaded.resumed
  /\ lastgood = checkpoint_file
  /\ offset = 0
  /\ batch_num = 1
  /\ checkpoint = DefaultCheckpoint
  /\ TotalRows >= 3

\* save_checkpoint has just returned: after its write, or after logging the
\* exception of its open or write
SaveReturns == pc \in {"save", "write"} /\ pc' = "pause"

\* C33: a save_checkpoint that fails leaves the run going and the in-memory
\* checkpoint as it was: the loop moves on to the next batch, and every save
\* that succeeds writes the whole in-memory checkpoint, with the processed
\* ids of the batches whose save failed.
C33_SaveFailureNotFatal ==
  [][SaveReturns =>
       /\ checkpoint' = checkpoint
       /\ offset' = offset + batch_size
       /\ batch_num' = batch_num + 1
       /\ events' = events =>
            /\ checkpoint_file' = [st |-> "ok", data |-> checkpoint]
            /\ checkpoint.last_batch = batch_num
            /\ Range(checkpoint.processed_page_ids) \subseteq
                 Range(checkpoint_file'.data.processed_page_ids)
            /\ inserted \subseteq Range(checkpoint_file'.data.processed_page_ids)]_vars

\* the first run's save of batch 1 failed, and its save of batch 2 has
\* written the ids of both batches
C33_Witness ==
  /\ pc = "pause"
  /\ runs = 1
  /\ "save" \in faults
  /\ checkpoint.last_batch = 2
  /\ checkpoint_file = [st |-> "ok", data |-> checkpoint]
  /\ Len(checkpoint.processed_page_ids) = 4

\* C34: no step of the router or of the migration deletes a shard file or
\* removes a record from one: the set of shards and the keys of each shard
\* only grow.
C34_ShardsOnlyGrow ==
  [][/\ DOMAIN rows \subseteq DOMAIN rows'
     /\ \A s \in DOMAIN rows : shard_keys(s) \subseteq shard_keys(s)']_vars

\* a second run is under way over two shards: a full one it is no longer
\* bound to and the one it writes to, which holds records
C34_Witness ==
  /\ pc \in Running
  /\ Cardinality(DOMAIN rows) >= 2
  /\ runs >= 2
  /\ \E s \in DOMAIN rows : s # current_shard_path /\ check_shard_size(s)
  /\ rows[current_shard_path] # <<>>

\* every entry of the map names a shard file that holds the key
Truthful(map) ==
  \A k \in DOMAIN map : map[k] \in DOMAIN rows /\ k \in shard_keys(map[k])

\* C35: during a migration and after an interrupt at any point of it, every
\* entry key -> shard of the index, in memory and in the index file, names a
\* shard that holds the key; add_page runs only after the commit of the
\* insert.
C35_IndexEntriesTruthful ==
  /\ Truthful(page_to_shard)
  /\ Truthful(load_index)
  /\ pc \in {"idx", "mark"} => page_id \in shard_keys(shard_path)

\* an interrupt has fallen inside a batch and has left an index file with
\* entries for two shards
C35_Witness ==
  /\ pc = "interrupted"
  /\ ~orderly
  /\ index_file.st = "ok"
  /\ Cardinality(Range(index_file.map)) >= 2
  /\ DOMAIN index_file.map # AllShardKeys

\* C36: a migration run that nothing interrupts terminates: it reaches the
\* rebuild of the index and the removal of the checkpoint file and returns,
\* for every batch size and even when every insert attempt fails.
C36_RunTerminates ==
  (pc \in Running) ~> (pc = "done")

\* a first run in which every insert attempt failed has returned: no shard
\* holds a record and the retries of every source record were exhausted
C36_Witness ==
  /\ pc = "done"
  /\ runs = 1
  /\ AllShardKeys = {}
  /\ exhausted = SourceKeys
  /\ index_file = [st |-> "ok", map |-> EmptyMap]
  /\ checkpoint_file.st = "absent"

\* migrate_database, lines 386-390: the checkpoint dict is updated after a batch
CheckpointUpdated == pc = "rec" /\ pc' = "save"

\* C37: a checkpoint that is saved is the dict updated after the batch; in
\* it entries_processed is at most the number of source records and not less
\* than in the dict of the batch before (or than the one the run loaded),
\* and last_batch is one more than there.
C37_CheckpointCounters ==
  [][/\ CheckpointUpdated =>
          /\ checkpoint'.entries_processed <= total_entries
          /\ checkpoint'.entries_processed >= checkpoint.entries_processed
          /\ checkpoint'.last_batch = checkpoint.last_batch + 1
     /\ (checkpoint_file' # checkpoint_file /\ checkpoint_file'.st = "ok") =>
          /\ checkpoint_file'.data = checkpoint
          /\ checkpoint_file'.data.entries_processed <= total_entries
          /\ checkpoint_file'.data.last_batch = batch_num]_vars

\* the third batch of a run has been saved with every source record counted
C37_Witness ==
  /\ pc = "pause"
  /\ checkpoint_file = [st |-> "ok", data |-> checkpoint]
  /\ checkpoint.last_batch = 3
  /\ checkpoint.entries_processed = total_entries

\* C38: when the scan of one shard fails during rebuild_index, the rebuild
\* returns, every key of every other shard is indexed, the index file holds
\* the rebuilt map, and no key of the failed shard is in that index.
C38_FailedShardKeysAbsent ==
  (pc = "cleanup" /\ scanfail # {}) =>
    /\ \A s \in get_all_shard_paths \ scanfail : \A k \in shard_keys(s) :
         k \in DOMAIN page_to_shard
    /\ index_file = [st |-> "ok", map |-> page_to_shard]
    /\ \A s \in scanfail : \A k \in shard_keys(s) :
         k \notin DOMAIN index_file.map

\* C39: a read connection opened without a path (get_db_connection with
\* for_writing false) uses the most recent shard, the last one of the
\* name-sorted listing of the shards on disk.
C39_ReadConnectionUsesLastShard ==
  [][Returned("connect") =>
       LET shards == sorted(DOMAIN rows')
       IN ret'.out = <<shards[Len(shards)]>>]_vars

\* a list without a repeated element
NoRepeats(seq) == \A a, b \in DOMAIN seq : seq[a] = seq[b] => a = b

\* C40: the processed-key list of the checkpoint, in memory and in every
\* readable checkpoint file, never holds a key twice; within a run the list
\* grows only by process_batch appending, after insert_entry_to_shard has
\* returned, the key of the current record, which was not in the list.
C40_ProcessedKeysUnique ==
  [][/\ NoRepeats(checkpoint'.processed_page_ids)
     /\ checkpoint_file'.st = "ok" =>
          NoRepeats(checkpoint_file'.data.processed_page_ids)
     /\ (/\ ~RunStarts
         /\ Len(checkpoint'.processed_page_ids) > Len(checkpoint.processed_page_ids)) =>
          /\ pc = "mark"
          /\ page_id \notin Range(checkpoint.processed_page_ids)
          /\ checkpoint'.processed_page_ids =
               Append(checkpoint.processed_page_ids, page_id)]_vars

\* a resumed run has appended a further key to the list it loaded, and
\* that checkpoint has been saved
C40_Witness ==
  /\ loaded.resumed
  /\ loaded.S # {}
  /\ Len(checkpoint.processed_page_ids) > Cardinality(loaded.S)
  /\ checkpoint_file = [st |-> "ok", data |-> checkpoint]
  /\ pc = "pause"

TypeOK ==
  /\ clock \in Months
  /\ pc \in Running \cup Stopped
  /\ DOMAIN rows \subseteq Months
  /\ ret.op \in {"none", "init", "write", "read", "put", "remove", "connect"}
  /\ ret.key \in IndexedKeys \cup {NoKey}

====
